---- MODULE Spec2Model ----
\* Time-series-to-training-data transformation of the hourly trip predictor:
\* the cutoff indexer (transformations/time_series/cutoffs.py) and the loop
\* over stations of transform_ts_into_training_data
\* (transformations/training_data.py).
EXTENDS Integers, Sequences, FiniteSets, TLC

\* ---------------------------------------------------------------- bounds
MaxLen == 5          \* longest station series drawn
MaxTrips == 2        \* largest trip count of the enumerated series
MaxSeqLen == 3       \* largest input_seq_len drawn
MaxStep == 2         \* largest step_size drawn

\* The series of the end-to-end scenario and of the singleton example.
ScenarioSeries == <<2, 3, 1, 4, 2>>
SingletonExample == <<5>>

\* Where the rows of a second station sit in ts_data.
Layouts == {"sorted", "reversed", "mixed"}

\* ------------------------------------------------------------- markers
Unset == <<>>               \* an attribute not assigned yet
Set(v) == <<v>>             \* an attribute holding v
NoStation == 0              \* the loop variable before the first iteration
Empty == -1                 \* a cell of np.empty nobody has written

\* -------------------------------------------------------------- helpers
RECURSIVE Reverse(_)
Reverse(s) == IF s = <<>> THEN <<>> ELSE Reverse(Tail(s)) \o <<Head(s)>>

\* float32 of a non-negative integer below 2^25: exact up to 2^24, then
\* round to the nearest even significand.
Float32(v) ==
    IF v <= 16777216 THEN v
    ELSE IF v % 2 = 0 THEN v
    ELSE IF ((v - 1) \div 2) % 2 = 0 THEN v - 1 ELSE v + 1

\* positional access: offsets are 0-based in the source
Iloc(rows, k) == rows[k + 1]
InRange(rows, k) == k >= 0 /\ k < Len(rows)

\* rows[a:b] with Python's clipping of slice bounds (a, b >= 0)
Slice(rows, a, b) ==
    LET lo == IF a > Len(rows) THEN Len(rows) ELSE a
        hi == IF b > Len(rows) THEN Len(rows) ELSE b
    IN  IF hi <= lo THEN <<>> ELSE SubSeq(rows, lo + 1, hi)

Trips(rows) == [i \in 1..Len(rows) |-> rows[i].trips]

\* ts_data[f"{scenario}_station_id"].unique(): ids in order of first appearance
RECURSIVE Unique(_)
Unique(rows) ==
    IF rows = <<>> THEN <<>>
    ELSE LET rest == Unique(SubSeq(rows, 1, Len(rows) - 1))
             sid == rows[Len(rows)].station_id
         IN  IF \E i \in 1..Len(rest) : rest[i] = sid THEN rest
             ELSE rest \o <<sid>>

\* ts_data.loc[ts_data[station_id] == station_id, ...]
LocStation(rows, sid) ==
    LET Keep(r) == r.station_id = sid IN SelectSeq(rows, Keep)

\* sort_values(by=[hour]): ascending, stable
RECURSIVE InsertByHour(_, _)
InsertByHour(sorted, r) ==
    IF sorted = <<>> THEN <<r>>
    ELSE IF sorted[Len(sorted)].hour <= r.hour THEN sorted \o <<r>>
    ELSE InsertByHour(SubSeq(sorted, 1, Len(sorted) - 1), r)
             \o <<sorted[Len(sorted)]>>

RECURSIVE sort_values(_)
sort_values(rows) ==
    IF rows = <<>> THEN <<>>
    ELSE InsertByHour(sort_values(SubSeq(rows, 1, Len(rows) - 1)),
                      rows[Len(rows)])

\* --------------------------------------------------------- CutoffIndexer
\* Variant: the boundary compared with > instead of >=.
use_standard_strict(ts, n) ==
    LET stop_position == Len(ts) - 1 IN stop_position > n + 1

\* use_standard_cutoff_indexer(self): stop_position >= input_seq_len + 1
use_standard_cutoff_indexer(ts, n) ==
    LET stop_position == Len(ts) - 1 IN stop_position >= n + 1

\* Variant: the standard loop stops one triple early (last_index < stop).
RECURSIVE run_standard_stops_early(_, _, _, _, _)
run_standard_stops_early(first_index, mid_index, last_index, stop, step) ==
    IF last_index < stop
    THEN <<<<first_index, mid_index, last_index>>>> \o
         run_standard_stops_early(first_index + step, mid_index + step,
                                  last_index + step, stop, step)
    ELSE <<>>

\* run_standard_cutoff_indexer: the loop runs while last_index <= stop
RECURSIVE run_standard_cutoff_indexer(_, _, _, _, _)
run_standard_cutoff_indexer(first_index, mid_index, last_index, stop, step) ==
    IF last_index <= stop
    THEN <<<<first_index, mid_index, last_index>>>> \o
         run_standard_cutoff_indexer(first_index + step, mid_index + step,
                                     last_index + step, stop, step)
    ELSE <<>>

\* Variant: the modified loop bounded by last_index, as the standard one.
RECURSIVE run_modified_bounded_by_last(_, _, _, _, _)
run_modified_bounded_by_last(first_index, mid_index, last_index, stop, step) ==
    IF last_index <= stop
    THEN <<<<first_index, mid_index, last_index>>>> \o
         run_modified_bounded_by_last(first_index + step, mid_index + step,
                                      last_index + step, stop, step)
    ELSE <<>>

\* Variant: the modified loop bounded by first_index.
RECURSIVE run_modified_bounded_by_first(_, _, _, _, _)
run_modified_bounded_by_first(first_index, mid_index, last_index, stop, step) ==
    IF first_index <= stop
    THEN <<<<first_index, mid_index, last_index>>>> \o
         run_modified_bounded_by_first(first_index + step, mid_index + step,
                                       last_index + step, stop, step)
    ELSE <<>>

\* run_modified_cutoff_indexer: the loop runs while mid_index <= stop
RECURSIVE run_modified_cutoff_indexer(_, _, _, _, _)
run_modified_cutoff_indexer(first_index, mid_index, last_index, stop, step) ==
    IF mid_index <= stop
    THEN <<<<first_index, mid_index, last_index>>>> \o
         run_modified_cutoff_indexer(first_index + step, mid_index + step,
                                     last_index + step, stop, step)
    ELSE <<>>

\* The branch of get_cutoff_indices that runs: the conditions of lines 43,
\* 52 and 56 on the attribute self.use_standard_indexer and len(self.ts_data).
cutoff_regime(flag, ts) ==
    IF flag = Unset THEN "AttributeError"
    ELSE IF flag[1] THEN "STANDARD"
    ELSE IF ~flag[1] /\ Len(ts) >= 2 THEN "SHORT_MULTI"
    ELSE IF ~flag[1] /\ Len(ts) = 1 THEN "SINGLETON"
    ELSE "None"

\* get_cutoff_indices(self)
get_cutoff_indices(flag, ts, n, step) ==
    LET stop_position == Len(ts) - 1
        regime == cutoff_regime(flag, ts)
    IN  IF regime = "STANDARD"
        THEN run_standard_cutoff_indexer(0, n, n + 1, stop_position, step)
        ELSE IF regime = "SHORT_MULTI"
        THEN run_modified_cutoff_indexer(0, 1, 2, stop_position, step)
        ELSE IF regime = "SINGLETON" THEN <<ts[1].index>>
        ELSE regime

\* ------------------------------------------------------------ the state
VARIABLES
    ts_data,              \* the time series handed to the transformation
    input_seq_len,
    step_size,
    pc,                   \* position in transform_ts_into_training_data
    todo,                 \* station ids the loop has still to visit
    station_id,           \* loop variable
    ts_per_station,       \* the station's rows, sorted by hour
    use_standard_indexer, \* CutoffIndexer.use_standard_indexer
    indices,              \* CutoffIndexer.indices
    use_standard,         \* local use_standard_cutoff_indexer (line 54)
    x, y, hours,          \* per-station arrays and hour list
    features_per_station, \* the station's feature frame
    targets_per_station,  \* the station's target frame
    features, targets,    \* the accumulated frames
    \* transform_cleaned_data_into_ts (transformations/time_series/core.py)
    cleaned_data,                 \* the cleaned trips, both views
    interim_dataframes,           \* frames returned by the station indexer
    start_file, end_file,         \* the two JSON files of points and ids
    rounded_start_points_and_ids, \* dictionary loaded from the start file
    rounded_end_points_and_ids,   \* dictionary loaded from the end file
    common_points,                \* points the loop of line 72 has to visit
    start_ts, end_ts,             \* the aggregated time series
    \* aggregate_final_ts
    interim_data, agg_data,
    \* clean and the station indexing choice
    dataset,              \* the raw trips (parameter data)
    for_inference,
    debug,                \* Python's __debug__: assert statements execute
    scenarios,            \* scenarios handed to the measurement
    outcome,              \* value returned or exception raised
    path_to_cleaned_data,
    indexer_run,          \* a station indexer has been called
    \* the loops of run_standard_cutoff_indexer / run_modified_cutoff_indexer
    first_index, mid_index, last_index,
    \* select_months_of_interest and load_raw_data
    current_year, current_month,  \* datetime.now()
    offset,
    periods,              \* the Period objects returned
    requested             \* the (year, month) files load_raw_data asks for

vars_training == <<ts_data, input_seq_len, step_size, pc, todo, station_id,
                   ts_per_station, use_standard_indexer, indices,
                   use_standard, x, y, hours, features_per_station,
                   targets_per_station, features, targets>>

vars_series == <<cleaned_data, interim_dataframes, start_file, end_file,
                 rounded_start_points_and_ids, rounded_end_points_and_ids,
                 common_points, start_ts, end_ts>>

vars_aggregate == <<interim_data, agg_data>>

vars_policy == <<dataset, for_inference, debug, scenarios, outcome,
                 path_to_cleaned_data, indexer_run>>

\* what the transformation into training data leaves alone
vars_loop == <<first_index, mid_index, last_index>>

vars_months == <<current_year, current_month, offset, periods, requested>>

vars_other ==
    <<vars_series, vars_aggregate, vars_policy, vars_loop, vars_months>>

vars == <<vars_training, vars_other>>

\* the variables of the functions a specification does not run
NotRun(v) == v = <<>>
SeriesNotRun ==
    /\ NotRun(cleaned_data) /\ NotRun(interim_dataframes)
    /\ NotRun(start_file) /\ NotRun(end_file)
    /\ NotRun(rounded_start_points_and_ids)
    /\ NotRun(rounded_end_points_and_ids)
    /\ NotRun(common_points) /\ NotRun(start_ts) /\ NotRun(end_ts)
AggregateNotRun == NotRun(interim_data) /\ NotRun(agg_data)
LoopNotRun ==
    NotRun(first_index) /\ NotRun(mid_index) /\ NotRun(last_index)
MonthsNotRun ==
    /\ NotRun(current_year) /\ NotRun(current_month) /\ NotRun(offset)
    /\ NotRun(periods) /\ NotRun(requested)
PolicyNotRun ==
    /\ NotRun(dataset) /\ NotRun(for_inference) /\ NotRun(debug)
    /\ NotRun(scenarios) /\ NotRun(outcome)
    /\ NotRun(path_to_cleaned_data) /\ NotRun(indexer_run)

\* ------------------------------------------------------------- inputs
SeriesSet ==
    UNION {[1..len -> 1..MaxTrips] : len \in 1..MaxLen}
        \cup {ScenarioSeries, SingletonExample}

\* Rows of station 1 carrying the series s at hours 0..Len(s)-1, and one row
\* of station 2; index labels are the positions in the table.
Relabel(rows) == [i \in 1..Len(rows) |-> [rows[i] EXCEPT !.index = i - 1]]

StationRows(s) ==
    [i \in 1..Len(s) |-> [index |-> 0, hour |-> i - 1, station_id |-> 1,
                          trips |-> s[i]]]

OtherRow == [index |-> 0, hour |-> 0, station_id |-> 2, trips |-> 1]

Table(s, layout) ==
    IF layout = "sorted" THEN Relabel(StationRows(s))
    ELSE IF layout = "reversed" THEN Relabel(Reverse(StationRows(s)))
    ELSE Relabel(<<StationRows(s)[1], OtherRow>> \o Tail(StationRows(s)))

Init ==
    /\ \E s \in SeriesSet, layout \in Layouts : ts_data = Table(s, layout)
    /\ input_seq_len \in 1..MaxSeqLen
    /\ step_size \in 1..MaxStep
    /\ pc = "loop"
    /\ todo = Unique(ts_data)
    /\ station_id = NoStation
    /\ ts_per_station = <<>>
    /\ use_standard_indexer = Unset
    /\ indices = <<>>
    /\ use_standard = FALSE
    /\ x = <<>>
    /\ y = <<>>
    /\ hours = <<>>
    /\ features_per_station = <<>>
    /\ targets_per_station = <<>>
    /\ features = <<>>
    /\ targets = <<>>
    /\ SeriesNotRun /\ AggregateNotRun /\ PolicyNotRun /\ LoopNotRun
    /\ MonthsNotRun

\* ------------------------------------------------------------- actions
\* lines 42-51: next station of the loop, its rows selected and sorted
NextStation ==
    /\ pc = "loop"
    /\ todo # <<>>
    /\ station_id' = Head(todo)
    /\ todo' = Tail(todo)
    /\ ts_per_station' = sort_values(LocStation(ts_data, Head(todo)))
    /\ pc' = "indexer"
    /\ UNCHANGED <<ts_data, input_seq_len, step_size, use_standard_indexer,
                   indices, use_standard, x, y, hours, features_per_station,
                   targets_per_station, features, targets>>
    /\ UNCHANGED vars_other

\* line 53: the indexer's attributes as lines 16-19, 22 and 23 assign them.
\* The call of get_cutoff_indices on line 21, made before line 22 assigns the
\* flag, is not part of this action: this specification follows the methods
\* of an indexer whose flag is assigned.
CutoffIndexer ==
    /\ pc = "indexer"
    /\ LET flag ==
               Set(use_standard_cutoff_indexer(ts_per_station, input_seq_len))
       IN  /\ use_standard_indexer' = flag
           /\ indices' = get_cutoff_indices(flag, ts_per_station,
                                            input_seq_len, step_size)
    /\ pc' = "allocate"
    /\ UNCHANGED <<ts_data, input_seq_len, step_size, todo, station_id,
                   ts_per_station, use_standard, x, y, hours,
                   features_per_station, targets_per_station, features,
                   targets>>
    /\ UNCHANGED vars_other

\* Variant: the branch chosen by stop_position >= input_seq_len, one less
\* than the indexer's condition.
Allocate_branch_by_window ==
    /\ pc = "allocate"
    /\ use_standard' = (Len(ts_per_station) - 1 >= input_seq_len)
    /\ LET num_indices == Len(indices) IN
           /\ x' = [i \in 1..num_indices |->
                        [j \in 1..input_seq_len |-> Empty]]
           /\ y' = [i \in 1..num_indices |-> Empty]
    /\ hours' = <<>>
    /\ pc' = "fill"
    /\ UNCHANGED <<ts_data, input_seq_len, step_size, todo, station_id,
                   ts_per_station, use_standard_indexer, indices,
                   features_per_station, targets_per_station, features,
                   targets>>
    /\ UNCHANGED vars_other

\* Variant: the arrays sized by the station's rows, not by its indices.
Allocate_one_row_per_series_row ==
    /\ pc = "allocate"
    /\ use_standard' =
           use_standard_cutoff_indexer(ts_per_station, input_seq_len)
    /\ LET num_indices == Len(ts_per_station) IN
           /\ x' = [i \in 1..num_indices |->
                        [j \in 1..input_seq_len |-> Empty]]
           /\ y' = [i \in 1..num_indices |-> Empty]
    /\ hours' = <<>>
    /\ pc' = "fill"
    /\ UNCHANGED <<ts_data, input_seq_len, step_size, todo, station_id,
                   ts_per_station, use_standard_indexer, indices,
                   features_per_station, targets_per_station, features,
                   targets>>
    /\ UNCHANGED vars_other

\* lines 54-62: the regime asked again, the arrays allocated uninitialised
Allocate ==
    /\ pc = "allocate"
    /\ use_standard' =
           use_standard_cutoff_indexer(ts_per_station, input_seq_len)
    /\ LET num_indices == Len(indices) IN
           /\ x' = [i \in 1..num_indices |->
                        [j \in 1..input_seq_len |-> Empty]]
           /\ y' = [i \in 1..num_indices |-> Empty]
    /\ hours' = <<>>
    /\ pc' = "fill"
    /\ UNCHANGED <<ts_data, input_seq_len, step_size, todo, station_id,
                   ts_per_station, use_standard_indexer, indices,
                   features_per_station, targets_per_station, features,
                   targets>>
    /\ UNCHANGED vars_other

vars_fill == <<ts_data, input_seq_len, step_size, todo, station_id,
               use_standard_indexer, indices, use_standard,
               features_per_station, targets_per_station, features, targets,
               vars_other>>

\* x[i, :] = values: a row takes input_seq_len values, or one value repeated
Broadcastable(values, n) == Len(values) = n \/ Len(values) = 1
Broadcast(values, n) ==
    [j \in 1..n |-> Float32(IF Len(values) = 1 THEN values[1] ELSE values[j])]

\* row i of an allocated array written for every index, others untouched
WriteRows(array, rows) ==
    [i \in 1..Len(array) |-> IF i \in 1..Len(rows) THEN rows[i] ELSE array[i]]

\* lines 63-68: the standard regime, one row per index
StandardReadsOk ==
    /\ Len(indices) <= Len(x)
    /\ \A i \in 1..Len(indices) :
        /\ InRange(ts_per_station, indices[i][2])
        /\ InRange(ts_per_station, indices[i][3])
        /\ Broadcastable(Slice(ts_per_station, indices[i][1], indices[i][2]),
                         input_seq_len)

\* Variant: the target read at the hour the row is stamped with
\* (ts_per_station.iloc[index[1]]).
FillStandard_target_at_mid ==
    /\ pc = "fill"
    /\ use_standard
    /\ IF StandardReadsOk
       THEN /\ x' = WriteRows(x, [i \in 1..Len(indices) |->
                        Broadcast(Trips(Slice(ts_per_station, indices[i][1],
                                              indices[i][2])), input_seq_len)])
            /\ y' = WriteRows(y, [i \in 1..Len(indices) |->
                        Float32(Iloc(ts_per_station, indices[i][2]).trips)])
            /\ hours' = [i \in 1..Len(indices) |->
                            Iloc(ts_per_station, indices[i][2]).hour]
            /\ pc' = "frames"
       ELSE /\ pc' = "raised"
            /\ UNCHANGED <<x, y, hours>>
    /\ UNCHANGED ts_per_station
    /\ UNCHANGED vars_fill

FillStandard ==
    /\ pc = "fill"
    /\ use_standard
    /\ IF StandardReadsOk
       THEN /\ x' = WriteRows(x, [i \in 1..Len(indices) |->
                        Broadcast(Trips(Slice(ts_per_station, indices[i][1],
                                              indices[i][2])), input_seq_len)])
            /\ y' = WriteRows(y, [i \in 1..Len(indices) |->
                        Float32(Iloc(ts_per_station, indices[i][3]).trips)])
            /\ hours' = [i \in 1..Len(indices) |->
                            Iloc(ts_per_station, indices[i][2]).hour]
            /\ pc' = "frames"
       ELSE /\ pc' = "raised"
            /\ UNCHANGED <<x, y, hours>>
    /\ UNCHANGED ts_per_station
    /\ UNCHANGED vars_fill

\* Variant: the single row's target is never written.
FillSingleton_without_target ==
    /\ pc = "fill"
    /\ ~use_standard
    /\ Len(ts_per_station) = 1
    /\ IF Len(x) >= 1
       THEN /\ x' = [x EXCEPT ![1] =
                        Broadcast(<<Trips(ts_per_station)[1]>>, input_seq_len)]
            /\ hours' = hours \o <<ts_per_station[1].hour>>
            /\ pc' = "frames"
            /\ UNCHANGED y
       ELSE /\ pc' = "raised"
            /\ UNCHANGED <<x, y, hours>>
    /\ UNCHANGED ts_per_station
    /\ UNCHANGED vars_fill

\* lines 70-79: a station with one row
FillSingleton ==
    /\ pc = "fill"
    /\ ~use_standard
    /\ Len(ts_per_station) = 1
    /\ IF Len(x) >= 1
       THEN /\ x' = [x EXCEPT ![1] =
                        Broadcast(<<Trips(ts_per_station)[1]>>, input_seq_len)]
            /\ y' = [y EXCEPT ![1] = Float32(Trips(ts_per_station)[1])]
            /\ hours' = hours \o <<ts_per_station[1].hour>>
            /\ pc' = "frames"
       ELSE /\ pc' = "raised"
            /\ UNCHANGED <<x, y, hours>>
    /\ UNCHANGED ts_per_station
    /\ UNCHANGED vars_fill

\* reset_index(drop=True): the labels become the positions
reset_index(rows) == [i \in 1..Len(rows) |-> [rows[i] EXCEPT !.index = i - 1]]

ModifiedReadsOk ==
    /\ Len(indices) <= Len(x)
    /\ \A i \in 1..Len(indices) :
        /\ Broadcastable(Slice(ts_per_station, indices[i][1], indices[i][2]),
                         input_seq_len)
        /\ Slice(ts_per_station, indices[i][2], indices[i][3]) # <<>>
        /\ InRange(ts_per_station, indices[i][2])

\* Variant: the target read as the standard branch reads it
\* (ts_per_station.iloc[index[2]]).
FillModified_target_at_last ==
    /\ pc = "fill"
    /\ ~use_standard
    /\ Len(ts_per_station) # 1
    /\ ts_per_station' = reset_index(ts_per_station)
    /\ IF /\ ModifiedReadsOk
          /\ \A i \in 1..Len(indices) :
                 InRange(ts_per_station, indices[i][3])
       THEN /\ x' = WriteRows(x, [i \in 1..Len(indices) |->
                        Broadcast(Trips(Slice(ts_per_station, indices[i][1],
                                              indices[i][2])), input_seq_len)])
            /\ y' = WriteRows(y, [i \in 1..Len(indices) |->
                        Float32(Iloc(ts_per_station, indices[i][3]).trips)])
            /\ hours' = [i \in 1..Len(indices) |->
                            Iloc(ts_per_station, indices[i][2]).hour]
            /\ pc' = "frames"
       ELSE /\ pc' = "raised"
            /\ UNCHANGED <<x, y, hours>>
    /\ UNCHANGED vars_fill

\* Variant: the target taken from the row the features come from
\* (ts_per_station[index[0]:index[1]]).
FillModified_target_at_first ==
    /\ pc = "fill"
    /\ ~use_standard
    /\ Len(ts_per_station) # 1
    /\ ts_per_station' = reset_index(ts_per_station)
    /\ IF ModifiedReadsOk
       THEN /\ x' = WriteRows(x, [i \in 1..Len(indices) |->
                        Broadcast(Trips(Slice(ts_per_station, indices[i][1],
                                              indices[i][2])), input_seq_len)])
            /\ y' = WriteRows(y, [i \in 1..Len(indices) |->
                        Float32(Trips(Slice(ts_per_station, indices[i][1],
                                            indices[i][2]))[1])])
            /\ hours' = [i \in 1..Len(indices) |->
                            Iloc(ts_per_station, indices[i][2]).hour]
            /\ pc' = "frames"
       ELSE /\ pc' = "raised"
            /\ UNCHANGED <<x, y, hours>>
    /\ UNCHANGED vars_fill

\* lines 81-88: the remaining stations, after reset_index(drop=True)
FillModified ==
    /\ pc = "fill"
    /\ ~use_standard
    /\ Len(ts_per_station) # 1
    /\ ts_per_station' = reset_index(ts_per_station)
    /\ IF ModifiedReadsOk
       THEN /\ x' = WriteRows(x, [i \in 1..Len(indices) |->
                        Broadcast(Trips(Slice(ts_per_station, indices[i][1],
                                              indices[i][2])), input_seq_len)])
            /\ y' = WriteRows(y, [i \in 1..Len(indices) |->
                        Float32(Trips(Slice(ts_per_station, indices[i][2],
                                            indices[i][3]))[1])])
            /\ hours' = [i \in 1..Len(indices) |->
                            Iloc(ts_per_station, indices[i][2]).hour]
            /\ pc' = "frames"
       ELSE /\ pc' = "raised"
            /\ UNCHANGED <<x, y, hours>>
    /\ UNCHANGED vars_fill

\* Variant: the columns labelled in ascending order, oldest value under
\* trips_previous_1_hour.
FeatureFrame_ascending_labels(data, hrs, sid, n) ==
    [i \in 1..Len(data) |->
        [index |-> i - 1,
         previous |-> [k \in 1..n |-> data[i][k]],
         hour |-> hrs[i],
         station_id |-> sid]]

\* lines 90-100: the station's frames, appended to the accumulated ones.
\* Column j (0-based) of x is labelled trips_previous_{input_seq_len - j}_hour:
\* the frame's field previous[k] stands for trips_previous_k_hour.
FeatureFrame(data, hrs, sid, n) ==
    [i \in 1..Len(data) |->
        [index |-> i - 1,
         previous |-> [k \in 1..n |-> data[i][n - k + 1]],
         hour |-> hrs[i],
         station_id |-> sid]]

TargetFrame(data) ==
    [i \in 1..Len(data) |-> [index |-> i - 1, trips_next_hour |-> data[i]]]

Frames ==
    /\ pc = "frames"
    /\ IF Len(hours) = Len(x)
       THEN /\ features_per_station' =
                   FeatureFrame(x, hours, station_id, input_seq_len)
            /\ targets_per_station' = TargetFrame(y)
            /\ features' = features \o features_per_station'
            /\ targets' = targets \o targets_per_station'
            /\ pc' = "loop"
       ELSE /\ pc' = "raised"
            /\ UNCHANGED <<features_per_station, targets_per_station,
                           features, targets>>
    /\ UNCHANGED <<ts_data, input_seq_len, step_size, todo, station_id,
                   ts_per_station, use_standard_indexer, indices,
                   use_standard, x, y, hours>>
    /\ UNCHANGED vars_other

\* lines 102-103: after the loop both frames are renumbered
Renumber ==
    /\ pc = "loop"
    /\ todo = <<>>
    /\ features' = reset_index(features)
    /\ targets' = reset_index(targets)
    /\ pc' = "engineer"
    /\ UNCHANGED <<ts_data, input_seq_len, step_size, todo, station_id,
                   ts_per_station, use_standard_indexer, indices,
                   use_standard, x, y, hours, features_per_station,
                   targets_per_station>>
    /\ UNCHANGED vars_other

Next ==
    \/ NextStation
    \/ CutoffIndexer
    \/ Allocate
    \/ FillStandard
    \/ FillSingleton
    \/ FillModified
    \/ Frames
    \/ Renumber

Spec == Init /\ [][Next]_vars

\* ====================================================================
\* Properties
\* ====================================================================
\* The rows of the current station in the table, and their number L.
StationRowSet == {ts_data[i] : i \in {j \in DOMAIN ts_data :
                                        ts_data[j].station_id = station_id}}
L == Cardinality(StationRowSet)

\* The station's series in hour order, read off the table: offset k holds
\* the row with exactly k rows of the station at earlier hours.
SeriesAt(k) ==
    CHOOSE r \in StationRowSet :
        Cardinality({q \in StationRowSet : q.hour < r.hour}) = k

\* The indexer of the current station has been built.
Indexed == pc \in {"allocate", "fill", "frames"}
               \/ (pc \in {"loop", "engineer"} /\ station_id # NoStation)
\* The current station's frames have been built.
Materialized == pc \in {"loop", "engineer"} /\ station_id # NoStation

RegimeTaken == cutoff_regime(use_standard_indexer, ts_per_station)

IsScenario ==
    /\ L = 5
    /\ Len(ts_data) = 5
    /\ \A k \in 0..4 : SeriesAt(k) \in StationRowSet
                           /\ SeriesAt(k).hour = k
                           /\ SeriesAt(k).trips = ScenarioSeries[k + 1]
    /\ input_seq_len = 3
    /\ step_size = 1

C7_EndToEnd ==
    /\ (Indexed /\ IsScenario) => indices = << <<0, 3, 4>> >>
    /\ (Materialized /\ IsScenario) =>
           /\ Len(features_per_station) = 1
           /\ Len(features) = 1
           /\ features[1].previous = [k \in 1..3 |-> ScenarioSeries[4 - k]]
           /\ x = << <<2, 3, 1>> >>
           /\ Len(targets) = 1
           /\ targets[1].trips_next_hour = 4

IndexerSeriesSet == SeriesSet \cup {<<>>}

InitIndexer ==
    /\ \E s \in IndexerSeriesSet : ts_per_station = Relabel(StationRows(s))
    /\ input_seq_len \in 1..MaxSeqLen
    /\ step_size \in 1..MaxStep
    /\ pc = "flag"
    /\ use_standard_indexer = Unset
    /\ indices = <<>>
    /\ ts_data = <<>>
    /\ todo = <<>>
    /\ station_id = NoStation
    /\ use_standard = FALSE
    /\ x = <<>>
    /\ y = <<>>
    /\ hours = <<>>
    /\ features_per_station = <<>>
    /\ targets_per_station = <<>>
    /\ features = <<>>
    /\ targets = <<>>
    /\ SeriesNotRun /\ AggregateNotRun /\ PolicyNotRun /\ LoopNotRun
    /\ MonthsNotRun

vars_indexer_frame == <<ts_data, input_seq_len, step_size, todo, station_id,
                        ts_per_station, use_standard, x, y, hours,
                        features_per_station, targets_per_station, features,
                        targets, vars_other>>

\* line 22: self.use_standard_indexer = self.use_standard_cutoff_indexer()
AssignFlag ==
    /\ pc = "flag"
    /\ use_standard_indexer' =
           Set(use_standard_cutoff_indexer(ts_per_station, input_seq_len))
    /\ pc' = "indices"
    /\ UNCHANGED indices
    /\ UNCHANGED vars_indexer_frame

\* line 23: self.indices = self.get_cutoff_indices()
AssignIndices ==
    /\ pc = "indices"
    /\ indices' = get_cutoff_indices(use_standard_indexer, ts_per_station,
                                     input_seq_len, step_size)
    /\ pc' = "constructed"
    /\ UNCHANGED use_standard_indexer
    /\ UNCHANGED vars_indexer_frame

NextIndexer == AssignFlag \/ AssignIndices

SpecIndexer == InitIndexer /\ [][NextIndexer]_vars

\* C11: a series of length 0 makes the index computation fail with an
\* empty-series error; no value, neither an index list nor an absent
\* result, is returned for L = 0.
C11_EmptySeriesFails ==
    (pc = "constructed" /\ Len(ts_per_station) = 0) =>
        indices = "EmptySeriesError"

\* ====================================================================
\* transform_cleaned_data_into_ts, case (True, True) with the scenarios
\* ["start", "end"], and aggregate_final_ts
\* (transformations/time_series/core.py)
\* ====================================================================
MaxCleaned == 3             \* most cleaned trips drawn
Points == {"p", "q"}        \* rounded coordinates, as the keys of the files
Hours == {0, 1}
NaN == -1                   \* a missing value of a frame

\* ------------------------------------------------ dictionaries (json.load)
\* A dictionary is its items in insertion order.
Keys(dict) == [i \in 1..Len(dict) |-> dict[i].point]
HasKey(dict, point) == \E i \in 1..Len(dict) : dict[i].point = point
Lookup(dict, point) ==
    dict[CHOOSE i \in 1..Len(dict) : dict[i].point = point].id
\* dict[point] = id
SetItem(dict, point, id) ==
    IF HasKey(dict, point)
    THEN [i \in 1..Len(dict) |->
             IF dict[i].point = point THEN [dict[i] EXCEPT !.id = id]
             ELSE dict[i]]
    ELSE dict \o <<[point |-> point, id |-> id]>>

\* ------------------------------------------------ the station indexer
\* run_rounding_indexer: the first time a point is seen it gets the next
\* integer; the rows come back with the id of their point.
RECURSIVE PointsAndIds(_)
PointsAndIds(rows) ==
    IF rows = <<>> THEN <<>>
    ELSE LET before == PointsAndIds(SubSeq(rows, 1, Len(rows) - 1))
             point == rows[Len(rows)].point
         IN  IF HasKey(before, point) THEN before
             ELSE SetItem(before, point, Len(before))

run_rounding_indexer(rows) ==
    [i \in 1..Len(rows) |->
        [hour |-> rows[i].hour, point |-> rows[i].point,
         station_id |-> Lookup(PointsAndIds(rows), rows[i].point)]]

\* ------------------------------------------------ aggregate_final_ts
\* groupby([hour, station_id]).size().reset_index(): one row per group of
\* non-missing keys, in the order of the keys, with the size of the group
GroupKeys(rows) ==
    {<<rows[i].hour, rows[i].station_id>> : i \in
         {j \in 1..Len(rows) : rows[j].hour # NaN /\ rows[j].station_id # NaN}}

KeyBefore(a, b) == a[1] < b[1] \/ (a[1] = b[1] /\ a[2] < b[2])

RECURSIVE SortedKeys(_)
SortedKeys(keys) ==
    IF keys = {} THEN <<>>
    ELSE LET first == CHOOSE k \in keys :
                          \A other \in keys \ {k} : KeyBefore(k, other)
         IN  <<first>> \o SortedKeys(keys \ {first})

\* variant of .size(): every group counted as one trip
GroupSize_one_per_group(rows, key) ==
    IF \E i \in 1..Len(rows) : <<rows[i].hour, rows[i].station_id>> = key
    THEN 1 ELSE 0

GroupSize(rows, key) ==
    Cardinality({i \in 1..Len(rows) :
                    <<rows[i].hour, rows[i].station_id>> = key})

\* variant: one row for every hour and every station of the frame, the
\* hours without a trip included
aggregate_final_ts_dense(rows) ==
    LET present == {i \in 1..Len(rows) :
                       rows[i].hour # NaN /\ rows[i].station_id # NaN}
        keys == SortedKeys({<<rows[i].hour, rows[j].station_id>> :
                               i \in present, j \in present})
    IN  [i \in 1..Len(keys) |->
            [hour |-> keys[i][1], station_id |-> keys[i][2],
             trips |-> GroupSize(rows, keys[i])]]

aggregate_final_ts(rows) ==
    LET keys == SortedKeys(GroupKeys(rows)) IN
    [i \in 1..Len(keys) |->
        [hour |-> keys[i][1], station_id |-> keys[i][2],
         trips |-> GroupSize(rows, keys[i])]]

\* ------------------------------------------------ the reconciliation
\* lines 66-69: the keys of the start dictionary that the end one has too
CommonPoints(start_dict, end_dict) ==
    LET InEnd(point) == HasKey(end_dict, point)
    IN  SelectSeq(Keys(start_dict), InEnd)

\* variants of line 73
reconcile_point_self_assign(dicts, point) ==
    <<SetItem(dicts[1], point, Lookup(dicts[1], point)), dicts[2]>>

reconcile_point_start_wins(dicts, point) ==
    <<dicts[1], SetItem(dicts[2], point, Lookup(dicts[1], point))>>

reconcile_point_swap(dicts, point) ==
    <<SetItem(dicts[1], point, Lookup(dicts[2], point)),
      SetItem(dicts[2], point, Lookup(dicts[1], point))>>

\* variant: the start dictionary updated with the whole end dictionary
\* (rounded_start_points_and_ids.update(rounded_end_points_and_ids))
reconcile_point_update(dicts, point) ==
    LET NotInStart(item) == ~HasKey(dicts[1], item.point)
        updated == [i \in 1..Len(dicts[1]) |->
                       IF HasKey(dicts[2], dicts[1][i].point)
                       THEN [dicts[1][i] EXCEPT
                                !.id = Lookup(dicts[2], dicts[1][i].point)]
                       ELSE dicts[1][i]]
    IN  <<updated \o SelectSeq(dicts[2], NotInStart), dicts[2]>>

\* line 73, on the pair of dictionaries
reconcile_point(dicts, point) ==
    <<SetItem(dicts[1], point, Lookup(dicts[2], point)), dicts[2]>>

\* lines 66-73 as a whole
RECURSIVE reconcile_loop(_, _)
reconcile_loop(dicts, points) ==
    IF points = <<>> THEN dicts
    ELSE reconcile_loop(reconcile_point(dicts, Head(points)), Tail(points))

reconcile_pass(dicts) ==
    reconcile_loop(dicts, CommonPoints(dicts[1], dicts[2]))

\* ------------------------------------------------ inputs
CleanedTrips == [start_point : Points, end_point : Points, hour : Hours]
CleanedSet == UNION {[1..len -> CleanedTrips] : len \in 1..MaxCleaned}

StartView(trips) ==
    [i \in 1..Len(trips) |->
        [hour |-> trips[i].hour, point |-> trips[i].start_point]]
EndView(trips) ==
    [i \in 1..Len(trips) |->
        [hour |-> trips[i].hour, point |-> trips[i].end_point]]

TrainingNotRun ==
    /\ ts_data = <<>>
    /\ input_seq_len = 1
    /\ step_size = 1
    /\ todo = <<>>
    /\ station_id = NoStation
    /\ ts_per_station = <<>>
    /\ use_standard_indexer = Unset
    /\ indices = <<>>
    /\ use_standard = FALSE
    /\ x = <<>>
    /\ y = <<>>
    /\ hours = <<>>
    /\ features_per_station = <<>>
    /\ targets_per_station = <<>>
    /\ features = <<>>
    /\ targets = <<>>

vars_training_frame == <<ts_data, input_seq_len, step_size, todo, station_id,
                         ts_per_station, use_standard_indexer, indices,
                         use_standard, x, y, hours, features_per_station,
                         targets_per_station, features, targets>>

InitSeries ==
    /\ \E trips \in CleanedSet :
           cleaned_data = [start |-> StartView(trips), end |-> EndView(trips)]
    /\ pc = "index_start"
    /\ interim_dataframes = <<>>
    /\ start_file = <<>>
    /\ end_file = <<>>
    /\ rounded_start_points_and_ids = <<>>
    /\ rounded_end_points_and_ids = <<>>
    /\ common_points = <<>>
    /\ start_ts = <<>>
    /\ end_ts = <<>>
    /\ TrainingNotRun /\ AggregateNotRun /\ PolicyNotRun /\ LoopNotRun
    /\ MonthsNotRun

vars_series_frame ==
    <<vars_training_frame, vars_aggregate, vars_policy, vars_loop,
      vars_months>>

\* lines 45-54, first iteration: the start view indexed, its file written
IndexStart ==
    /\ pc = "index_start"
    /\ interim_dataframes' =
           interim_dataframes \o <<run_rounding_indexer(cleaned_data.start)>>
    /\ start_file' = PointsAndIds(cleaned_data.start)
    /\ pc' = "index_end"
    /\ UNCHANGED <<cleaned_data, end_file, rounded_start_points_and_ids,
                   rounded_end_points_and_ids, common_points, start_ts,
                   end_ts>>
    /\ UNCHANGED vars_series_frame

\* lines 45-54, second iteration: the end view
IndexEnd ==
    /\ pc = "index_end"
    /\ interim_dataframes' =
           interim_dataframes \o <<run_rounding_indexer(cleaned_data.end)>>
    /\ end_file' = PointsAndIds(cleaned_data.end)
    /\ pc' = "load"
    /\ UNCHANGED <<cleaned_data, start_file, rounded_start_points_and_ids,
                   rounded_end_points_and_ids, common_points, start_ts,
                   end_ts>>
    /\ UNCHANGED vars_series_frame

\* lines 56-69: both files loaded, the common points collected
LoadFiles ==
    /\ pc = "load"
    /\ rounded_start_points_and_ids' = start_file
    /\ rounded_end_points_and_ids' = end_file
    /\ common_points' = CommonPoints(start_file, end_file)
    /\ pc' = "reconcile"
    /\ UNCHANGED <<cleaned_data, interim_dataframes, start_file, end_file,
                   start_ts, end_ts>>
    /\ UNCHANGED vars_series_frame

\* lines 72-73: one iteration of the loop over the common points
ReconcilePoint ==
    /\ pc = "reconcile"
    /\ common_points # <<>>
    /\ LET dicts == reconcile_point(<<rounded_start_points_and_ids,
                                      rounded_end_points_and_ids>>,
                                    Head(common_points))
       IN  /\ rounded_start_points_and_ids' = dicts[1]
           /\ rounded_end_points_and_ids' = dicts[2]
    /\ common_points' = Tail(common_points)
    /\ UNCHANGED <<pc, cleaned_data, interim_dataframes, start_file,
                   end_file, start_ts, end_ts>>
    /\ UNCHANGED vars_series_frame

\* variant: line 75 placed inside the loop's body
AggregateStart_before_loop_ends ==
    /\ pc = "reconcile"
    /\ start_ts' = aggregate_final_ts(interim_dataframes[1])
    /\ pc' = "aggregate_end"
    /\ UNCHANGED <<cleaned_data, interim_dataframes, start_file, end_file,
                   rounded_start_points_and_ids, rounded_end_points_and_ids,
                   common_points, end_ts>>
    /\ UNCHANGED vars_series_frame

\* line 75, reached when the loop is over
AggregateStart ==
    /\ pc = "reconcile"
    /\ common_points = <<>>
    /\ start_ts' = aggregate_final_ts(interim_dataframes[1])
    /\ pc' = "aggregate_end"
    /\ UNCHANGED <<cleaned_data, interim_dataframes, start_file, end_file,
                   rounded_start_points_and_ids, rounded_end_points_and_ids,
                   common_points, end_ts>>
    /\ UNCHANGED vars_series_frame

\* line 76
AggregateEnd ==
    /\ pc = "aggregate_end"
    /\ end_ts' = aggregate_final_ts(interim_dataframes[2])
    /\ pc' = "return"
    /\ UNCHANGED <<cleaned_data, interim_dataframes, start_file, end_file,
                   rounded_start_points_and_ids, rounded_end_points_and_ids,
                   common_points, start_ts>>
    /\ UNCHANGED vars_series_frame

\* lines 78-82: return start_ts, end_ts
ReturnSeries ==
    /\ pc = "return"
    /\ pc' = "returned"
    /\ UNCHANGED vars_series
    /\ UNCHANGED vars_series_frame

NextSeries ==
    \/ IndexStart
    \/ IndexEnd
    \/ LoadFiles
    \/ ReconcilePoint
    \/ AggregateStart
    \/ AggregateEnd
    \/ ReturnSeries

SpecSeries == InitSeries /\ [][NextSeries]_vars

\* ------------------------------------------------ properties of the pass
\* the loop of lines 72-73 is over
Reconciled ==
    \/ pc = "reconcile" /\ common_points = <<>>
    \/ pc \in {"aggregate_end", "return", "returned"}

AggregationStarted == pc \in {"aggregate_end", "return", "returned"}

BothHave(point) ==
    /\ HasKey(rounded_start_points_and_ids, point)
    /\ HasKey(rounded_end_points_and_ids, point)

\* the two files give the point different ids
FilesDiffer(point) ==
    /\ HasKey(start_file, point)
    /\ HasKey(end_file, point)
    /\ Lookup(start_file, point) # Lookup(end_file, point)

IdsOfPoint(frame, point) ==
    {frame[i].station_id : i \in {j \in 1..Len(frame) : frame[j].point = point}}

HasStation(series, id) == \E i \in 1..Len(series) : series[i].station_id = id

\* C14: when the function has returned, a coordinate key common to both
\* views has one and the same station id in the returned start and end
\* series, and that id is the reconciled one.
C14_OneIdInBothSeries ==
    pc = "returned" =>
        \A point \in Points :
            BothHave(point) =>
                \E id \in 0..MaxCleaned :
                    /\ IdsOfPoint(interim_dataframes[1], point) = {id}
                    /\ IdsOfPoint(interim_dataframes[2], point) = {id}
                    /\ HasStation(start_ts, id)
                    /\ HasStation(end_ts, id)
                    /\ id = Lookup(rounded_start_points_and_ids, point)
                    /\ id = Lookup(rounded_end_points_and_ids, point)

MaxRows == 2                \* most rows in the block a dataset repeats
threshold == 10000000

\* A cell of a station_id column: what pd.isnull and str make of it.
NullCell == [isnull |-> TRUE, str |-> <<"n", "a", "n">>]
ShortId == [isnull |-> FALSE, str |-> <<"1", "3", "0", "2", "2", "1">>]
LongId == [isnull |-> FALSE, str |-> <<"E", "0", "0", "8", "-", "T", "A">>]
Cells == {NullCell, ShortId, LongId}

\* A dataset is a block of rows repeated a number of times.
RawRows == [start : Cells, end : Cells]
Copies == {1, threshold \div 2, threshold}
Datasets ==
    [rows : UNION {[1..n -> RawRows] : n \in 1..MaxRows}, copies : Copies]

ScenarioLists == {<<"start">>, <<"end">>, <<"start", "end">>}

\* len(data), data.shape[0]
len(data) == Len(data.rows) * data.copies

Returned(value) == [raised |-> "None", value |-> value]
Raised(error) == [raised |-> error, value |-> FALSE]

\* choice.py lines 8-25; the argument for_inference is Unset when the call
\* does not pass it, asserts says whether assert statements are executed
check_if_we_tie_ids_to_unique_coordinates(data, for_inference_arg, asserts) ==
    IF for_inference_arg = Unset THEN Raised("TypeError")
    ELSE IF asserts /\ for_inference_arg[1] THEN Raised("AssertionError")
    ELSE Returned(len(data) > threshold)

\* lines 53-57
long_id_count(data, scenario) ==
    data.copies * Cardinality({i \in 1..Len(data.rows) :
        /\ Len(data.rows[i][scenario].str) >= 7
        /\ ~data.rows[i][scenario].isnull})

\* line 59
number_of_missing_indices(data, scenario) ==
    data.copies * Cardinality({i \in 1..Len(data.rows) :
        data.rows[i][scenario].isnull})

\* variant of line 61: more than half
result_above_half(data, scenario) ==
    2 * (number_of_missing_indices(data, scenario)
         + long_id_count(data, scenario)) > len(data)

\* lines 60-61: the proportion is at least 0.5
result(data, scenario) ==
    2 * (number_of_missing_indices(data, scenario)
         + long_id_count(data, scenario)) >= len(data)

\* choice.py lines 28-64 (and use_custom_station_indexing)
check_if_we_use_custom_station_indexing(data, for_inference_arg, scenario_list, asserts) ==
    IF for_inference_arg = Unset THEN Raised("TypeError")
    ELSE IF asserts /\ ~for_inference_arg[1] THEN Raised("AssertionError")
    ELSE Returned(\A i \in 1..Len(scenario_list) :
                      result(data, scenario_list[i]))

\* the match statement on (using_custom_station_indexing,
\* tie_ids_to_unique_coordinates)
Match(using_custom_station_indexing, tie_ids_to_unique_coordinates) ==
    IF using_custom_station_indexing /\ tie_ids_to_unique_coordinates
    THEN "rounded_indexer"
    ELSE IF using_custom_station_indexing THEN "mixed_indexer"
    ELSE "NotImplementedError"

InitPolicy ==
    /\ dataset \in Datasets
    /\ for_inference \in BOOLEAN
    /\ debug \in BOOLEAN
    /\ scenarios = <<"start", "end">>
    /\ outcome = Raised("NotCalled")
    /\ path_to_cleaned_data = "None"
    /\ indexer_run = "None"
    /\ pc = "call"
    /\ TrainingNotRun /\ SeriesNotRun /\ AggregateNotRun /\ LoopNotRun
    /\ MonthsNotRun

vars_policy_frame ==
    <<vars_training_frame, vars_series, vars_aggregate, vars_loop,
      vars_months>>

\* cleaning.py lines 25-38
Clean ==
    /\ pc = "call"
    /\ pc' = "clean"
    /\ LET tie == check_if_we_tie_ids_to_unique_coordinates(
                      dataset, Set(for_inference), debug)
           custom == check_if_we_use_custom_station_indexing(
                         dataset, Set(for_inference), <<"start", "end">>, debug)
       IN  IF for_inference
           THEN /\ path_to_cleaned_data' = "partially_cleaned_data_for_inference"
                /\ outcome' = Returned(TRUE)
           ELSE IF tie.raised # "None"
           THEN /\ outcome' = tie
                /\ UNCHANGED path_to_cleaned_data
           ELSE IF custom.raised # "None"
           THEN /\ outcome' = custom
                /\ UNCHANGED path_to_cleaned_data
           ELSE IF Match(custom.value, tie.value) = "NotImplementedError"
           THEN /\ outcome' = Raised("NotImplementedError")
                /\ UNCHANGED path_to_cleaned_data
           ELSE /\ outcome' = Returned(TRUE)
                /\ path_to_cleaned_data' = Match(custom.value, tie.value)
    /\ UNCHANGED <<dataset, for_inference, debug, scenarios, indexer_run>>
    /\ UNCHANGED vars_policy_frame

\* choice.py lines 113-137
Investigate ==
    /\ pc = "call"
    /\ pc' = "investigate"
    /\ \E start_or_end \in {"start", "end"} :
        /\ scenarios' = <<start_or_end>>
        /\ LET custom == check_if_we_use_custom_station_indexing(
                             dataset, Unset, <<start_or_end>>, debug)
               tie == check_if_we_tie_ids_to_unique_coordinates(
                          dataset, Unset, debug)
           IN  IF custom.raised # "None"
               THEN /\ outcome' = custom
                    /\ UNCHANGED indexer_run
               ELSE IF tie.raised # "None"
               THEN /\ outcome' = tie
                    /\ UNCHANGED indexer_run
               ELSE IF Match(custom.value, tie.value) = "NotImplementedError"
               THEN /\ outcome' = Raised("NotImplementedError")
                    /\ UNCHANGED indexer_run
               ELSE /\ outcome' = Returned(TRUE)
                    /\ indexer_run' = Match(custom.value, tie.value)
    /\ UNCHANGED <<dataset, for_inference, debug, path_to_cleaned_data>>
    /\ UNCHANGED vars_policy_frame

\* a call of check_if_we_use_custom_station_indexing itself
Measure ==
    /\ pc = "call"
    /\ pc' = "measure"
    /\ \E scenario_list \in ScenarioLists :
        /\ scenarios' = scenario_list
        /\ outcome' = check_if_we_use_custom_station_indexing(
                          dataset, Set(for_inference), scenario_list, debug)
    /\ UNCHANGED <<dataset, for_inference, debug, path_to_cleaned_data,
                   indexer_run>>
    /\ UNCHANGED vars_policy_frame

NextPolicy ==
    \/ Clean
    \/ Investigate
    \/ Measure

SpecPolicy == InitPolicy /\ [][NextPolicy]_vars

\* ------------------------------------------------ properties of the choice
RowCount == Len(dataset.rows) * dataset.copies

\* the rows of a scenario whose station id is null, or is not null and has
\* a string form of 7 characters or more: each row once
InvalidRows(scenario) ==
    {i \in 1..Len(dataset.rows) :
        \/ dataset.rows[i][scenario].isnull
        \/ /\ ~dataset.rows[i][scenario].isnull
           /\ Len(dataset.rows[i][scenario].str) >= 7}

\* invalid rows / row count >= 0.5
HighRatio(scenario) ==
    2 * Cardinality(InvalidRows(scenario)) * dataset.copies >= RowCount

\* C17: for a training dataset with a high invalid-id ratio in both
\* scenarios the decision of clean completes without error and picks the
\* rounded-coordinate policy above 10,000,000 rows, the mixed one otherwise.
C17_TrainingPolicy ==
    (/\ pc = "clean"
     /\ ~for_inference
     /\ HighRatio("start")
     /\ HighRatio("end"))
        => /\ outcome.raised = "None"
           /\ path_to_cleaned_data =
                  IF RowCount > 10000000 THEN "rounded_indexer"
                  ELSE "mixed_indexer"

\* C18: for a training dataset with a low invalid-id ratio in some examined
\* scenario, clean and investigate_making_new_station_ids both raise
\* NotImplementedError, run no indexer and choose no path.
C18_InvalidPolicy ==
    (/\ pc \in {"clean", "investigate"}
     /\ ~for_inference
     /\ \E i \in 1..Len(scenarios) : ~HighRatio(scenarios[i]))
        => /\ outcome.raised = "NotImplementedError"
           /\ indexer_run = "None"
           /\ path_to_cleaned_data = "None"

\* C19: the measurement, when it returns, is true iff every examined
\* scenario has (null rows + non-null rows with a string form of 7 or more
\* characters) / N >= 0.5, each row counted once.
C19_Measurement ==
    (pc = "measure" /\ outcome.raised = "None")
        => /\ RowCount >= 1
           /\ outcome.value =
                  (\A i \in 1..Len(scenarios) : HighRatio(scenarios[i]))

C19_Witness ==
    /\ pc = "measure"
    /\ outcome.raised = "None"
    /\ scenarios = <<"start", "end">>
    /\ 2 * Cardinality(InvalidRows("start")) = Len(dataset.rows)
    /\ HighRatio("end")
    /\ outcome.value

\* ====================================================================
\* aggregate_final_ts on its own (core.py lines 165-172)
\* ====================================================================
MaxRecords == 3             \* most indexed records drawn
StationIds == {0, 1}

\* the rows of an indexed frame; a row the indexer left without an id has
\* a missing station_id
IndexedRows == [hour : Hours, station_id : StationIds \cup {NaN}]
InterimSet == UNION {[1..n -> IndexedRows] : n \in 0..MaxRecords}

InitAggregate ==
    /\ interim_data \in InterimSet
    /\ agg_data = <<>>
    /\ pc = "aggregate"
    /\ TrainingNotRun /\ SeriesNotRun /\ PolicyNotRun /\ LoopNotRun
    /\ MonthsNotRun

\* lines 169-172
Aggregate ==
    /\ pc = "aggregate"
    /\ agg_data' = aggregate_final_ts(interim_data)
    /\ pc' = "aggregated"
    /\ UNCHANGED interim_data
    /\ UNCHANGED <<vars_training_frame, vars_series, vars_policy, vars_loop,
                   vars_months>>

NextAggregate == Aggregate

SpecAggregate == InitAggregate /\ [][NextAggregate]_vars

\* ------------------------------------------------ properties
RECURSIVE SumTrips(_, _)
SumTrips(series, id) ==
    IF series = <<>> THEN 0
    ELSE (IF Head(series).station_id = id THEN Head(series).trips ELSE 0)
         + SumTrips(Tail(series), id)

RecordsOf(id) == {i \in 1..Len(interim_data) : interim_data[i].station_id = id}

\* C20: for every station id the trips of its rows in the aggregated series
\* add up to the number of input records with that id.
C20_TripsSumToRecords ==
    pc = "aggregated" =>
        \A id \in StationIds : SumTrips(agg_data, id) = Cardinality(RecordsOf(id))

C20_Witness ==
    /\ pc = "aggregated"
    /\ \E id \in StationIds :
           /\ Cardinality(RecordsOf(id)) = 3
           /\ \E i, j \in 1..Len(agg_data) :
                  /\ i # j
                  /\ agg_data[i].station_id = id
                  /\ agg_data[j].station_id = id
                  /\ agg_data[i].trips = 2

\* the records of an (hour, station) pair
RecordsOfPair(hour, id) ==
    {i \in 1..Len(interim_data) :
        interim_data[i].hour = hour /\ interim_data[i].station_id = id}

RowsOfPair(hour, id) ==
    {i \in 1..Len(agg_data) :
        agg_data[i].hour = hour /\ agg_data[i].station_id = id}

\* C21: the aggregated series has exactly one row for each (hour,
\* station_id) pair with an input record, none for a pair without one, and
\* every row has trips >= 1.
C21_OneRowPerPair ==
    pc = "aggregated" =>
        /\ \A hour \in Hours, id \in StationIds :
               Cardinality(RowsOfPair(hour, id)) =
                   IF RecordsOfPair(hour, id) # {} THEN 1 ELSE 0
        /\ \A i \in 1..Len(agg_data) :
               /\ agg_data[i].trips >= 1
               /\ agg_data[i].hour \in Hours
               /\ agg_data[i].station_id \in StationIds

C21_Witness ==
    /\ pc = "aggregated"
    /\ \E hour \in Hours, id \in StationIds :
           /\ Cardinality(RecordsOfPair(hour, id)) = 2
           /\ Cardinality(RowsOfPair(hour, id)) = 1
    /\ \E hour \in Hours, id \in StationIds :
           /\ RecordsOfPair(hour, id) = {}
           /\ RowsOfPair(hour, id) = {}
           /\ \E i \in 1..Len(interim_data) : interim_data[i].hour = hour
           /\ \E i \in 1..Len(interim_data) : interim_data[i].station_id = id

\* ====================================================================
\* transform_ts_into_training_data on a table whose first row belongs to
\* the station with the larger id
\* ====================================================================
TableOtherFirst(s, layout) ==
    IF layout = "sorted" THEN Relabel(<<OtherRow>> \o StationRows(s))
    ELSE IF layout = "reversed"
    THEN Relabel(<<OtherRow>> \o Reverse(StationRows(s)))
    ELSE Relabel(<<OtherRow, StationRows(s)[Len(s)]>>
                 \o SubSeq(StationRows(s), 1, Len(s) - 1))

InitStationOrder ==
    /\ \E s \in SeriesSet, layout \in Layouts :
           ts_data = TableOtherFirst(s, layout)
    /\ input_seq_len \in 1..MaxSeqLen
    /\ step_size \in 1..MaxStep
    /\ pc = "loop"
    /\ todo = Unique(ts_data)
    /\ station_id = NoStation
    /\ ts_per_station = <<>>
    /\ use_standard_indexer = Unset
    /\ indices = <<>>
    /\ use_standard = FALSE
    /\ x = <<>>
    /\ y = <<>>
    /\ hours = <<>>
    /\ features_per_station = <<>>
    /\ targets_per_station = <<>>
    /\ features = <<>>
    /\ targets = <<>>
    /\ SeriesNotRun /\ AggregateNotRun /\ PolicyNotRun /\ LoopNotRun
    /\ MonthsNotRun

SpecStationOrder == InitStationOrder /\ [][Next]_vars

RowBefore(a, b) ==
    \/ a.station_id < b.station_id
    \/ a.station_id = b.station_id /\ a.hour <= b.hour

\* C22: the rows of the returned frame are in non-decreasing
\* (station_id, timestamp) order.
C22_RowsInStationHourOrder ==
    pc = "engineer" =>
        \A i, j \in 1..Len(features) :
            i < j => RowBefore(features[i], features[j])

\* ====================================================================
\* get_cutoff_indices with its two loops taken one iteration at a time
\* (cutoffs.py lines 38-111)
\* ====================================================================
\* the longest list a loop is followed to
LoopCap == MaxLen + 2

InitLoops ==
    /\ \E length \in 0..MaxLen :
           ts_per_station = Relabel(StationRows([i \in 1..length |-> 1]))
    /\ input_seq_len \in 0..MaxSeqLen
    /\ step_size \in 0..MaxStep
    /\ use_standard_indexer =
           Set(use_standard_cutoff_indexer(ts_per_station, input_seq_len))
    /\ pc = "get_cutoff_indices"
    /\ indices = <<>>
    /\ first_index = 0
    /\ mid_index = 0
    /\ last_index = 0
    /\ ts_data = <<>>
    /\ todo = <<>>
    /\ station_id = NoStation
    /\ use_standard = FALSE
    /\ x = <<>>
    /\ y = <<>>
    /\ hours = <<>>
    /\ features_per_station = <<>>
    /\ targets_per_station = <<>>
    /\ features = <<>>
    /\ targets = <<>>
    /\ SeriesNotRun /\ AggregateNotRun /\ PolicyNotRun
    /\ MonthsNotRun

vars_loops_frame == <<ts_data, input_seq_len, step_size, todo, station_id,
                      ts_per_station, use_standard_indexer, use_standard, x,
                      y, hours, features_per_station, targets_per_station,
                      features, targets, vars_series, vars_aggregate,
                      vars_policy, vars_months>>

stop_position == Len(ts_per_station) - 1

\* lines 43-48 and 101: the standard loop is entered
EnterStandard ==
    /\ pc = "get_cutoff_indices"
    /\ cutoff_regime(use_standard_indexer, ts_per_station) = "STANDARD"
    /\ first_index' = 0
    /\ mid_index' = input_seq_len
    /\ last_index' = input_seq_len + 1
    /\ indices' = <<>>
    /\ pc' = "run_standard_cutoff_indexer"
    /\ UNCHANGED vars_loops_frame

\* lines 52-53 and 70: the modified loop is entered
EnterModified ==
    /\ pc = "get_cutoff_indices"
    /\ cutoff_regime(use_standard_indexer, ts_per_station) = "SHORT_MULTI"
    /\ first_index' = 0
    /\ mid_index' = 1
    /\ last_index' = 2
    /\ indices' = <<>>
    /\ pc' = "run_modified_cutoff_indexer"
    /\ UNCHANGED vars_loops_frame

\* lines 56-57, or the end of the method: no loop runs
ReturnWithoutLoop ==
    /\ pc = "get_cutoff_indices"
    /\ cutoff_regime(use_standard_indexer, ts_per_station)
           \in {"SINGLETON", "None"}
    /\ indices' = get_cutoff_indices(use_standard_indexer, ts_per_station,
                                     input_seq_len, step_size)
    /\ pc' = "returned"
    /\ UNCHANGED <<first_index, mid_index, last_index>>
    /\ UNCHANGED vars_loops_frame

\* lines 103-109: one iteration of the standard loop
StandardIteration ==
    /\ pc = "run_standard_cutoff_indexer"
    /\ last_index <= stop_position
    /\ Len(indices) < LoopCap
    /\ indices' = Append(indices, <<first_index, mid_index, last_index>>)
    /\ first_index' = first_index + step_size
    /\ mid_index' = mid_index + step_size
    /\ last_index' = last_index + step_size
    /\ UNCHANGED pc
    /\ UNCHANGED vars_loops_frame

\* lines 103 and 111: the standard loop is left
StandardReturn ==
    /\ pc = "run_standard_cutoff_indexer"
    /\ ~(last_index <= stop_position)
    /\ pc' = "returned"
    /\ UNCHANGED <<indices, first_index, mid_index, last_index>>
    /\ UNCHANGED vars_loops_frame

\* lines 72-78: one iteration of the modified loop
ModifiedIteration ==
    /\ pc = "run_modified_cutoff_indexer"
    /\ mid_index <= stop_position
    /\ Len(indices) < LoopCap
    /\ indices' = Append(indices, <<first_index, mid_index, last_index>>)
    /\ first_index' = first_index + step_size
    /\ mid_index' = mid_index + step_size
    /\ last_index' = last_index + step_size
    /\ UNCHANGED pc
    /\ UNCHANGED vars_loops_frame

\* lines 72 and 80: the modified loop is left
ModifiedReturn ==
    /\ pc = "run_modified_cutoff_indexer"
    /\ ~(mid_index <= stop_position)
    /\ pc' = "returned"
    /\ UNCHANGED <<indices, first_index, mid_index, last_index>>
    /\ UNCHANGED vars_loops_frame

NextLoops ==
    \/ EnterStandard
    \/ EnterModified
    \/ ReturnWithoutLoop
    \/ StandardIteration
    \/ StandardReturn
    \/ ModifiedIteration
    \/ ModifiedReturn

SpecLoops == InitLoops /\ [][NextLoops]_vars

\* a single thread runs the method: it keeps taking the next step
SpecLoopsFair == SpecLoops /\ WF_vars(NextLoops)

InitConstruct ==
    /\ \E s \in IndexerSeriesSet : ts_per_station = Relabel(StationRows(s))
    /\ input_seq_len \in 1..MaxSeqLen
    /\ step_size \in 1..MaxStep
    /\ pc = "first_indices"
    /\ use_standard_indexer = Unset
    /\ indices = <<>>
    /\ ts_data = <<>>
    /\ todo = <<>>
    /\ station_id = NoStation
    /\ use_standard = FALSE
    /\ x = <<>>
    /\ y = <<>>
    /\ hours = <<>>
    /\ features_per_station = <<>>
    /\ targets_per_station = <<>>
    /\ features = <<>>
    /\ targets = <<>>
    /\ SeriesNotRun /\ AggregateNotRun /\ PolicyNotRun /\ LoopNotRun
    /\ MonthsNotRun

\* line 21: self.indices = self.get_cutoff_indices(), run while the
\* attribute use_standard_indexer does not exist yet
FirstIndices ==
    /\ pc = "first_indices"
    /\ IF cutoff_regime(use_standard_indexer, ts_per_station)
              = "AttributeError"
       THEN /\ pc' = "raised"
            /\ UNCHANGED indices
       ELSE /\ pc' = "flag"
            /\ indices' = get_cutoff_indices(use_standard_indexer,
                              ts_per_station, input_seq_len, step_size)
    /\ UNCHANGED use_standard_indexer
    /\ UNCHANGED vars_indexer_frame

NextConstruct == FirstIndices

SpecConstruct == InitConstruct /\ [][NextConstruct]_vars

\* C24: constructing a CutoffIndexer on a series of length >= 1 completes
\* normally, with the flag set before it is read and indices the list of
\* the regime the flag reports.
C24_ConstructionCompletes ==
    (Len(ts_per_station) >= 1 /\ pc # "first_indices")
        => /\ pc # "raised"
           /\ use_standard_indexer # Unset
           /\ indices = get_cutoff_indices(
                  Set(use_standard_cutoff_indexer(ts_per_station,
                                                  input_seq_len)),
                  ts_per_station, input_seq_len, step_size)

\* ------------------------------------------------ more on the reconciliation
\* no two different keys of a dictionary share an id
Injective(dict) ==
    \A i, j \in 1..Len(dict) : dict[i].id = dict[j].id => i = j

\* C25: if each file gives distinct points distinct ids, then after the
\* pass each dictionary still gives distinct points distinct ids.
C25_InjectivityPreserved ==
    (Reconciled /\ Injective(start_file) /\ Injective(end_file))
        => /\ Injective(rounded_start_points_and_ids)
           /\ Injective(rounded_end_points_and_ids)

StandardOffsets(index) ==
    (index[1]..(index[2] - 1)) \cup {index[2], index[3]}
ModifiedOffsets(index) ==
    (index[1]..(index[2] - 1)) \cup (index[2]..(index[3] - 1)) \cup {index[2]}

StandardTargetsAt(k) == {i \in 1..Len(indices) : indices[i][3] = k}
ModifiedTargetsAt(k) == {i \in 1..Len(indices) : indices[i][2] = k}

Years == {2023, 2024}

\* Period(year=..., months=...)
Period(year, months) == [year |-> year, months |-> months]

\* list(range(start, stop))
range(start, stop) ==
    IF stop <= start THEN <<>>
    ELSE [i \in 1..(stop - start) |-> start + i - 1]

\* [month for month in range(stop) if month != 0]
NonZeroRange(stop) ==
    LET NotZero(month) == month # 0 IN SelectSeq(range(0, stop), NotZero)

\* line 35
month_numbers == NonZeroRange(13)

\* a_list[-index]
FromEnd(a_list, index) == a_list[Len(a_list) - index + 1]

select_months_of_interest(year, month, months_back) ==
    IF month > months_back
    THEN <<Period(year, range(month - months_back, month + 1))>>
    ELSE IF month < months_back
    THEN LET current_year_months_of_interest == NonZeroRange(month + 1)
             indexes == NonZeroRange(months_back - month + 1)
             previous_year_months_of_interest ==
                 [i \in 1..Len(indexes) |-> FromEnd(month_numbers, indexes[i])]
         IN  <<Period(year - 1, previous_year_months_of_interest),
               Period(year, current_year_months_of_interest)>>
    ELSE <<Period(year, NonZeroRange(month + 1))>>

\* list.sort() of month numbers
RECURSIVE SortedMonths(_)
SortedMonths(months) ==
    IF months = <<>> THEN <<>>
    ELSE LET least == CHOOSE i \in 1..Len(months) :
                          \A j \in 1..Len(months) : months[i] <= months[j]
             rest == [k \in 1..(Len(months) - 1) |->
                         months[IF k < least THEN k ELSE k + 1]]
         IN  <<months[least]>> \o SortedMonths(rest)

\* data_sourcing.py lines 98-100: the (year, month) pairs in the order the
\* files are asked for
RECURSIVE FilesOf(_)
FilesOf(period_list) ==
    IF period_list = <<>> THEN <<>>
    ELSE LET period == Head(period_list)
             months == SortedMonths(period.months)
         IN  [i \in 1..Len(months) |-> <<period.year, months[i]>>]
             \o FilesOf(Tail(period_list))

InitMonths ==
    /\ current_year \in Years
    /\ current_month \in 1..12
    /\ offset \in 1..12
    /\ periods = <<>>
    /\ requested = <<>>
    /\ pc = "select_months_of_interest"
    /\ TrainingNotRun /\ SeriesNotRun /\ AggregateNotRun /\ PolicyNotRun
    /\ LoopNotRun

vars_months_frame == <<vars_training_frame, vars_series, vars_aggregate,
                       vars_policy, vars_loop>>

\* data_sourcing.py line 96: periods = select_months_of_interest()
SelectMonths ==
    /\ pc = "select_months_of_interest"
    /\ periods' = select_months_of_interest(current_year, current_month, offset)
    /\ pc' = "load_raw_data"
    /\ UNCHANGED <<current_year, current_month, offset, requested>>
    /\ UNCHANGED vars_months_frame

\* data_sourcing.py lines 98-102: every period's months sorted and visited
LoadMonths ==
    /\ pc = "load_raw_data"
    /\ periods' = [i \in 1..Len(periods) |->
                      Period(periods[i].year, SortedMonths(periods[i].months))]
    /\ requested' = FilesOf(periods)
    /\ pc' = "loaded"
    /\ UNCHANGED <<current_year, current_month, offset>>
    /\ UNCHANGED vars_months_frame

NextMonths ==
    \/ SelectMonths
    \/ LoadMonths

SpecMonths == InitMonths /\ [][NextMonths]_vars

\* months counted from year 0
MonthNumber(year, month) == 12 * year + month - 1

Selected ==
    UNION {{MonthNumber(periods[i].year, periods[i].months[j]) :
               j \in 1..Len(periods[i].months)} : i \in 1..Len(periods)}

\* C30: for every current month and every offset in 1..12 the periods hold
\* the current month and exactly the offset calendar months before it,
\* offset + 1 distinct months with numbers in 1..12, those before January
\* in a Period of the previous year listed before the current year's.
C30_MonthsOfInterest ==
    pc # "select_months_of_interest" =>
        LET current == MonthNumber(current_year, current_month) IN
            /\ Selected = (current - offset)..current
            /\ Len(FilesOf(periods)) = offset + 1
            /\ \A i \in 1..Len(periods) :
                   /\ \A j \in 1..Len(periods[i].months) :
                          periods[i].months[j] \in 1..12
                   /\ periods[i].year \in {current_year - 1, current_year}
                   /\ \A k \in 1..Len(periods) :
                          i < k => periods[i].year < periods[k].year

====
